---- MODULE Spec2Model ----
(***************************************************************************)
(* Model of src/backend/database.py: the dict-backed InMemoryCollection    *)
(* (query matcher, update operators, aggregation pipeline), the two        *)
(* module-level collections and init_database.                             *)
(*                                                                         *)
(* Python values are tagged records [k, v]: k is the Python type, v the    *)
(* payload.  A document (dict) is a function from field names to values;   *)
(* mappings whose iteration order the code depends on (filters, operator   *)
(* conditions, update expressions) are sequences of <<key, value>> pairs   *)
(* in iteration order.                                                     *)
(***************************************************************************)
EXTENDS Integers, Sequences, FiniteSets, TLC

VARIABLES
    activities_collection,  \* InMemoryCollection._docs of activities_collection
    teachers_collection,    \* InMemoryCollection._docs of teachers_collection
    pre,                    \* both collections as they were before the last call
    call,                   \* the last call: operation and arguments
    ret,                    \* its outcome: a returned value or a raised exception
    held,                   \* object references the caller holds, and the call they are from
    steps                   \* number of calls made so far

vars == <<activities_collection, teachers_collection, pre, call, ret, held, steps>>

(***************************************************************************)
(* Bounds of the model.                                                    *)
(***************************************************************************)
MaxSteps == 3       \* calls per behaviour
MaxInt == 3         \* integers 0..MaxInt as field values and $gte/$lte operands
MaxSortDocs == 3    \* documents in a collection that is sorted

(***************************************************************************)
(* Python values.                                                          *)
(***************************************************************************)
PyNone == [k |-> "none", v |-> 0]
PyInt(n) == [k |-> "int", v |-> n]
PyStr(s) == [k |-> "str", v |-> s]
PyBool(b) == [k |-> "bool", v |-> b]
PyList(l) == [k |-> "list", v |-> l]
PyDict(d) == [k |-> "dict", v |-> d]
\* a dict given by its items in iteration order (filter conditions)
PyItems(items) == [k |-> "items", v |-> items]

isinstance_dict(x) == x.k \in {"dict", "items"}
isinstance_list(x) == x.k = "list"

\* hash(x): dict keys must be hashable; list and dict are not
hashable(x) == x.k \in {"none", "int", "str"}

\* dict.get(key) with the default None
dict_get(d, key) == IF key \in DOMAIN d.v THEN d.v[key] ELSE PyNone

\* dict.get(key, default)
dict_get_default(d, key, default) == IF key \in DOMAIN d.v THEN d.v[key] ELSE default

\* d[key] = value
dict_set(d, key, value) ==
    PyDict([f \in DOMAIN d.v \cup {key} |-> IF f = key THEN value ELSE d.v[f]])

\* x in lst, for a list lst (== on every element)
list_contains(lst, x) == \E i \in DOMAIN lst.v : lst.v[i] = x

\* str.split("."), on the field paths the model uses
split(key) ==
    CASE key = "schedule_details.days" -> <<"schedule_details", "days">>
      [] key = "schedule_details.start_time" -> <<"schedule_details", "start_time">>
      [] OTHER -> <<key>>

\* str.lstrip("$"), on the path expressions the model uses
lstrip_dollar(s) ==
    CASE s = "$participants" -> "participants"
      [] s = "$days" -> "days"
      [] s = "$max_participants" -> "max_participants"
      [] s = "$schedule_details.days" -> "schedule_details.days"
      [] s = "$schedule_details" -> "schedule_details"
      [] s = "$_id" -> "_id"
      [] OTHER -> s

\* str.startswith("$")
startswith_dollar(s) == lstrip_dollar(s) # s

\* the order of str under <, on the strings the model uses
str_rank(s) ==
    CASE s = "" -> 0
      [] s = "a" -> 1
      [] s = "b" -> 2
      [] s = "c" -> 3
      [] s = "x" -> 4
      [] s = "y" -> 5
      [] OTHER -> 6

\* whether a < b is defined: same type, int or str (anything else raises TypeError;
\* list operands are not used with $gte/$lte or $sort in this model)
orderable(a, b) == a.k = b.k /\ a.k \in {"int", "str"}

\* a < b for orderable a, b
py_lt(a, b) == IF a.k = "int" THEN a.v < b.v ELSE str_rank(a.v) < str_rank(b.v)

(***************************************************************************)
(* InMemoryCollection._matches                                             *)
(***************************************************************************)
\* the descent of one dotted path through nested dicts
RECURSIVE resolve(_, _)
resolve(value, parts) ==
    IF parts = <<>> THEN value
    ELSE IF isinstance_dict(value)
         THEN resolve(dict_get(value, Head(parts)), Tail(parts))
         ELSE PyNone

\* all(...) where the code has any(...)
in_all(value, operand) ==
    \A i \in DOMAIN value.v : list_contains(operand, value.v[i])

\* any(v in operand for v in value)
in_any(value, operand) ==
    \E i \in DOMAIN value.v : list_contains(operand, value.v[i])

\* $gte and $lte with <= and >= where the code has < and >
match_operator_strict(op, operand, value) ==
    CASE op = "$in" ->
            IF ~isinstance_list(value)
            THEN (IF ~list_contains(operand, value) THEN "False" ELSE "pass")
            ELSE (IF ~in_any(value, operand) THEN "False" ELSE "pass")
      [] op = "$gte" ->
            IF value = PyNone THEN "False"
            ELSE IF ~orderable(value, operand) THEN "TypeError"
            ELSE IF ~py_lt(operand, value) THEN "False" ELSE "pass"
      [] op = "$lte" ->
            IF value = PyNone THEN "False"
            ELSE IF ~orderable(value, operand) THEN "TypeError"
            ELSE IF ~py_lt(value, operand) THEN "False" ELSE "pass"
      [] OTHER -> "pass"

\* one operator of a condition: "pass" (go on), "False" (return False) or
\* "TypeError" (the comparison raises)
match_operator(op, operand, value) ==
    CASE op = "$in" ->
            IF ~isinstance_list(value)
            THEN (IF ~list_contains(operand, value) THEN "False" ELSE "pass")
            ELSE (IF ~in_any(value, operand) THEN "False" ELSE "pass")
      [] op = "$gte" ->
            IF value = PyNone THEN "False"
            ELSE IF ~orderable(value, operand) THEN "TypeError"
            ELSE IF py_lt(value, operand) THEN "False" ELSE "pass"
      [] op = "$lte" ->
            IF value = PyNone THEN "False"
            ELSE IF ~orderable(value, operand) THEN "TypeError"
            ELSE IF py_lt(operand, value) THEN "False" ELSE "pass"
      [] OTHER -> "pass"

\* for op, operand in condition.items(): the first outcome that is not "pass"
RECURSIVE match_condition(_, _)
match_condition(items, value) ==
    IF items = <<>> THEN "pass"
    ELSE LET r == match_operator(items[1][1], items[1][2], value)
         IN  IF r # "pass" THEN r ELSE match_condition(Tail(items), value)

\* _matches(doc, query): "True", "False", or "TypeError" when a comparison raises
RECURSIVE matches(_, _)
matches(doc, query) ==
    IF query = <<>> THEN "True"
    ELSE LET key == query[1][1]
             condition == query[1][2]
             value == resolve(doc, split(key))
             r == IF isinstance_dict(condition)
                  THEN match_condition(condition.v, value)
                  ELSE IF value # condition THEN "False" ELSE "pass"
         IN  IF r # "pass" THEN r ELSE matches(doc, Tail(query))

(***************************************************************************)
(* Object references.  A reference is the value it points to together with *)
(* the links that say which of its mutable sub-objects (the dict or list   *)
(* at path hp) are the very object stored at path sp of the document under *)
(* key: a mutation through a linked object is a mutation of the store.     *)
(***************************************************************************)
\* the paths of the mutable objects (dicts, lists) inside a value
RECURSIVE obj_paths(_)
obj_paths(x) ==
    IF x.k = "dict"
    THEN {<<>>} \cup UNION {{<<f>> \o p : p \in obj_paths(x.v[f])} : f \in DOMAIN x.v}
    ELSE IF x.k = "list" THEN {<<>>} ELSE {}

\* the reference to the document stored under key: the stored object itself
stored_ref(key, doc) ==
    [val |-> doc, links |-> {[hp |-> p, key |-> key, sp |-> p] : p \in obj_paths(doc)}]

\* a reference to a new object nothing else points to
fresh_ref(value) == [val |-> value, links |-> {}]

\* copy.copy: a new top-level object whose fields are the same objects
copy_shallow(ref) == [val |-> ref.val, links |-> {l \in ref.links : l.hp # <<>>}]

\* copy.deepcopy: an equal value that shares no object with the original
deepcopy(ref) == [val |-> ref.val, links |-> {}]

(***************************************************************************)
(* InMemoryCollection._docs: a dict keyed by _id, in insertion order.      *)
(***************************************************************************)
EmptyDocs == [order |-> <<>>, at |-> <<>>]

\* self._docs.get(key)
docs_get(docs, key) == IF key \in DOMAIN docs.at THEN docs.at[key] ELSE PyNone

\* self._docs[key] = doc: a new key goes last, an existing key keeps its place
docs_set(docs, key, doc) ==
    [order |-> IF key \in DOMAIN docs.at THEN docs.order ELSE Append(docs.order, key),
     at |-> [x \in DOMAIN docs.at \cup {key} |-> IF x = key THEN doc ELSE docs.at[x]]]

\* self._docs.values()
docs_values(docs) == [i \in 1..Len(docs.order) |-> docs.at[docs.order[i]]]

\* the outcome of a call
Return(value) == [kind |-> "return", val |-> value]
Raise(exc) == [kind |-> "raise", val |-> PyStr(exc)]

\* what a call leaves: the collection, the outcome, the references handed out
Result(docs, outcome, refs) == [docs |-> docs, ret |-> outcome, refs |-> refs]

\* filter.get("_id"): the condition given for _id, None without one
filter_get(filter, key) ==
    IF \E i \in DOMAIN filter : filter[i][1] = key
    THEN filter[CHOOSE i \in DOMAIN filter : filter[i][1] = key][2]
    ELSE PyNone

\* whether some document makes _matches raise
scan_raises(docs, filter) ==
    \E i \in DOMAIN docs.order : matches(docs.at[docs.order[i]], filter) = "TypeError"

\* for doc in self._docs.values(): if self._matches(doc, filter): the position of
\* the first match, 0 without one, -1 when _matches raises before one is found
RECURSIVE first_match(_, _, _)
first_match(docs, filter, i) ==
    IF i > Len(docs.order) THEN 0
    ELSE LET r == matches(docs.at[docs.order[i]], filter)
         IN  IF r = "TypeError" THEN -1
             ELSE IF r = "True" THEN i
             ELSE first_match(docs, filter, i + 1)

\* count_documents(filter)
count_documents(docs, filter) ==
    IF filter = <<>> THEN Result(docs, Return(PyInt(Len(docs.order))), <<>>)
    ELSE IF scan_raises(docs, filter) THEN Result(docs, Raise("TypeError"), <<>>)
    ELSE Result(docs,
                Return(PyInt(Cardinality({i \in DOMAIN docs.order :
                                matches(docs.at[docs.order[i]], filter) = "True"}))),
                <<>>)

\* self._docs.setdefault(_id, doc) where the code assigns: an existing key keeps
\* its document
insert_one_setdefault(docs, document) ==
    LET doc == deepcopy(document)
        id == dict_get(doc.val, "_id")
    IN  IF ~hashable(id) THEN Result(docs, Raise("TypeError"), <<document>>)
        ELSE IF id \in DOMAIN docs.at THEN Result(docs, Return(PyNone), <<document>>)
        ELSE Result(docs_set(docs, id, doc.val), Return(PyNone), <<document>>)

\* insert_one(document): document is the caller's reference, which the caller
\* still holds after the call
insert_one(docs, document) ==
    LET doc == deepcopy(document)
        id == dict_get(doc.val, "_id")
    IN  IF ~hashable(id) THEN Result(docs, Raise("TypeError"), <<document>>)
        ELSE Result(docs_set(docs, id, doc.val), Return(PyNone), <<document>>)

\* the references a returned list of documents carries
refs_value(refs) == PyList([i \in DOMAIN refs |-> refs[i].val])

\* bool(doc) of a document or None: None and the empty dict are false
truthy(doc) == doc # PyNone /\ DOMAIN doc.v # {}

\* find_one(filter)
find_one(docs, filter) ==
    LET id == filter_get(filter, "_id")
    IN  IF id # PyNone /\ Len(filter) = 1
        THEN IF ~hashable(id) THEN Result(docs, Raise("TypeError"), <<>>)
             ELSE LET doc == docs_get(docs, id)
                  IN  IF truthy(doc)
                      THEN LET r == deepcopy(stored_ref(id, doc))
                           IN  Result(docs, Return(r.val), <<r>>)
                      ELSE Result(docs, Return(PyNone), <<>>)
        ELSE LET i == first_match(docs, filter, 1)
             IN  IF i = -1 THEN Result(docs, Raise("TypeError"), <<>>)
                 ELSE IF i = 0 THEN Result(docs, Return(PyNone), <<>>)
                 ELSE LET r == deepcopy(stored_ref(docs.order[i], docs.at[docs.order[i]]))
                      IN  Result(docs, Return(r.val), <<r>>)

\* the loop of find: a deep copy of every document the filter does not skip
RECURSIVE find_from(_, _, _)
find_from(docs, filter, i) ==
    IF i > Len(docs.order) THEN <<>>
    ELSE LET key == docs.order[i]
         IN  IF filter # <<>> /\ matches(docs.at[key], filter) # "True"
             THEN find_from(docs, filter, i + 1)
             ELSE <<deepcopy(stored_ref(key, docs.at[key]))>> \o find_from(docs, filter, i + 1)

\* find(filter); filter None is the empty filter
find(docs, filter) ==
    IF filter # <<>> /\ scan_raises(docs, filter) THEN Result(docs, Raise("TypeError"), <<>>)
    ELSE LET refs == find_from(docs, filter, 1)
         IN  Result(docs, Return(refs_value(refs)), refs)

(***************************************************************************)
(* InMemoryCollection.update_one                                           *)
(***************************************************************************)
\* s in t for str s, t, on the strings the model uses (one character or empty)
str_contains(t, s) == s = "" \/ s = t

\* the list without any element equal to value, where lst.remove takes out one
list_remove_all(l, value) == SelectSeq(l, LAMBDA x : x # value)

\* lst.remove(value): the list without its first element equal to value
RECURSIVE list_remove(_, _)
list_remove(l, value) ==
    IF l = <<>> THEN <<>>
    ELSE IF Head(l) = value THEN Tail(l)
    ELSE <<Head(l)>> \o list_remove(Tail(l), value)

\* the document after one (op, field, value), and the exception raised ("" for none)
Applied(doc, exc) == [doc |-> doc, exc |-> exc]

\* $push: doc.setdefault(field, []).append(value)
apply_push(doc, field, value) ==
    LET lst == dict_get_default(doc, field, PyList(<<>>))
    IN  IF isinstance_list(lst)
        THEN Applied(dict_set(doc, field, PyList(Append(lst.v, value))), "")
        ELSE Applied(doc, "AttributeError")

\* $pull: lst = doc.get(field, []); if value in lst: lst.remove(value)
apply_pull(doc, field, value) ==
    LET lst == dict_get_default(doc, field, PyList(<<>>))
    IN  CASE lst.k = "list" ->
                IF list_contains(lst, value)
                THEN Applied(dict_set(doc, field, PyList(list_remove(lst.v, value))), "")
                ELSE Applied(doc, "")
          [] lst.k = "str" ->
                IF value.k # "str" THEN Applied(doc, "TypeError")
                ELSE IF str_contains(lst.v, value.v) THEN Applied(doc, "AttributeError")
                ELSE Applied(doc, "")
          [] lst.k = "dict" ->
                IF ~hashable(value) THEN Applied(doc, "TypeError")
                ELSE IF value.k = "str" /\ value.v \in DOMAIN lst.v
                THEN Applied(doc, "AttributeError")
                ELSE Applied(doc, "")
          [] OTHER -> Applied(doc, "TypeError")

\* $set: doc[field] = value
apply_set(doc, field, value) == Applied(dict_set(doc, field, value), "")

\* the body of the two loops for one (op, field, value); an unknown op does nothing
apply_operator(doc, op, field, value) ==
    CASE op = "$push" -> apply_push(doc, field, value)
      [] op = "$pull" -> apply_pull(doc, field, value)
      [] op = "$set" -> apply_set(doc, field, value)
      [] OTHER -> Applied(doc, "")

\* for op, fields in update.items(): for field, value in fields.items(): the
\* (op, field, value) triples in iteration order
RECURSIVE update_items(_)
update_items(update) ==
    IF update = <<>> THEN <<>>
    ELSE LET op == update[1][1]
             fields == update[1][2]
         IN  [i \in DOMAIN fields |-> <<op, fields[i][1], fields[i][2]>>]
             \o update_items(Tail(update))

\* the loops over the triples: they stop at the first exception and keep what the
\* earlier operators did to the stored document
RECURSIVE apply_update(_, _)
apply_update(doc, items) ==
    IF items = <<>> THEN Applied(doc, "")
    ELSE LET a == apply_operator(doc, items[1][1], items[1][2], items[1][3])
         IN  IF a.exc # "" THEN a ELSE apply_update(a.doc, Tail(items))

\* no document selected
NoKey == [k |-> "nokey", v |-> 0]

\* the selection of update_one: the key of the selected document, NoKey for none,
\* and whether the selection raises
select_one(docs, filter) ==
    LET id == filter_get(filter, "_id")
        i == first_match(docs, filter, 1)
    IN  IF id # PyNone
        THEN IF ~hashable(id) THEN [key |-> NoKey, exc |-> "TypeError"]
             ELSE [key |-> IF id \in DOMAIN docs.at THEN id ELSE NoKey, exc |-> ""]
        ELSE IF i = -1 THEN [key |-> NoKey, exc |-> "TypeError"]
        ELSE [key |-> IF i = 0 THEN NoKey ELSE docs.order[i], exc |-> ""]

\* how many of the triples the loops complete
RECURSIVE applied_count(_, _)
applied_count(doc, items) ==
    IF items = <<>> THEN 0
    ELSE LET a == apply_operator(doc, items[1][1], items[1][2], items[1][3])
         IN  IF a.exc # "" THEN 0 ELSE 1 + applied_count(a.doc, Tail(items))

\* the caller's reference to the value of one triple after the call: doc[field] =
\* value stores the caller's object itself, with whatever the later operators did
\* to it.  (A value $push appended is an element of a list, where references do
\* not reach: the update expressions of the model push scalars.)
value_ref(key, doc, item, applied) ==
    IF applied /\ item[1] = "$set"
    THEN [val |-> doc.v[item[2]],
          links |-> {[hp |-> p, key |-> key, sp |-> <<item[2]>> \o p] :
                        p \in obj_paths(doc.v[item[2]])}]
    ELSE fresh_ref(item[3])

\* the caller's references to the lists and dicts among the values of the update
\* expression, n of whose triples were applied to the document doc stored under key
RECURSIVE update_refs(_, _, _, _)
update_refs(key, doc, items, n) ==
    IF items = <<>> THEN <<>>
    ELSE (IF items[1][3].k \in {"list", "dict"}
          THEN <<value_ref(key, doc, items[1], n > 0)>>
          ELSE <<>>)
         \o update_refs(key, doc, Tail(items), n - 1)

\* update_one(filter, update)
update_one(docs, filter, update) ==
    LET sel == select_one(docs, filter)
        items == update_items(update)
        unused == update_refs(NoKey, PyNone, items, 0)
    IN  IF sel.exc # "" THEN Result(docs, Raise(sel.exc), unused)
        ELSE IF sel.key = NoKey THEN Result(docs, Return(PyInt(0)), unused)
        ELSE LET a == apply_update(docs.at[sel.key], items)
                 after == docs_set(docs, sel.key, a.doc)
                 refs == update_refs(sel.key, a.doc, items,
                                     applied_count(docs.at[sel.key], items))
             IN  IF a.exc # "" THEN Result(after, Raise(a.exc), refs)
                 ELSE Result(after, Return(PyInt(1)), refs)

(***************************************************************************)
(* InMemoryCollection.aggregate.  A stage is [name, arg]: its one key and   *)
(* that key's value.  The working list docs is a sequence of references.   *)
(***************************************************************************)
\* value = value.get(p, []) if isinstance(value, dict) else [], over the parts
RECURSIVE unwind_value(_, _)
unwind_value(value, parts) ==
    IF parts = <<>> THEN value
    ELSE unwind_value(IF isinstance_dict(value)
                      THEN dict_get_default(value, Head(parts), PyList(<<>>))
                      ELSE PyList(<<>>),
                      Tail(parts))

\* obj = d; for p in parts[:-1]: obj = obj[p]; obj[parts[-1]] = v
RECURSIVE set_nested(_, _, _)
set_nested(d, parts, v) ==
    IF Len(parts) = 1 THEN dict_set(d, parts[1], v)
    ELSE dict_set(d, Head(parts), set_nested(d.v[Head(parts)], Tail(parts), v))

\* whether path p starts with path q
starts_with(p, q) == Len(q) <= Len(p) /\ SubSeq(p, 1, Len(q)) = q

\* the outputs of $unwind for one document
unwind_doc(doc, parts) ==
    LET value == unwind_value(doc.val, parts)
    IN  IF isinstance_list(value)
        THEN [i \in DOMAIN value.v |->
                LET d == deepcopy(doc)
                IN  [val |-> set_nested(d.val, parts, value.v[i]),
                     links |-> {l \in d.links : ~starts_with(l.hp, parts)}]]
        ELSE <<doc>>

\* the $unwind stage
RECURSIVE stage_unwind(_, _)
stage_unwind(docs, parts) ==
    IF docs = <<>> THEN <<>>
    ELSE unwind_doc(Head(docs), parts) \o stage_unwind(Tail(docs), parts)

\* val = val.get(p) if isinstance(val, dict) else None, over the key path; the
\* literal id_expr without a key path
group_key(doc, id_expr) ==
    IF id_expr.k = "str" /\ startswith_dollar(id_expr.v)
    THEN resolve(doc.val, split(lstrip_dollar(id_expr.v)))
    ELSE id_expr

\* groups kept as a list where the code has a dict: one entry per document
RECURSIVE group_keys_list(_, _, _)
group_keys_list(docs, id_expr, seen) ==
    IF docs = <<>> THEN seen
    ELSE group_keys_list(Tail(docs), id_expr, Append(seen, group_key(Head(docs), id_expr)))

\* groups[val] = {"_id": val} over the documents: the distinct keys in the order
\* of their first occurrence
RECURSIVE group_keys(_, _, _)
group_keys(docs, id_expr, seen) ==
    IF docs = <<>> THEN seen
    ELSE LET val == group_key(Head(docs), id_expr)
         IN  group_keys(Tail(docs), id_expr,
                        IF \E i \in DOMAIN seen : seen[i] = val THEN seen
                        ELSE Append(seen, val))

\* the $group stage: TypeError when a key is unhashable
stage_group(docs, group_spec) ==
    LET id_expr == filter_get(group_spec, "_id")
        keys == group_keys(docs, id_expr, <<>>)
    IN  IF \E i \in DOMAIN docs : ~hashable(group_key(docs[i], id_expr))
        THEN [docs |-> <<>>, exc |-> "TypeError"]
        ELSE [docs |-> [i \in DOMAIN keys |->
                            fresh_ref(PyDict([f \in {"_id"} |-> keys[i]]))],
              exc |-> ""]

\* d.get(k, "")
sort_key(doc, k) == dict_get_default(doc.val, k, PyStr(""))

\* list.sort compares keys with <: it raises TypeError when two keys of a list
\* of at least two are not orderable
sort_raises(docs, k) ==
    Len(docs) >= 2 /\ \E i, j \in DOMAIN docs : ~orderable(sort_key(docs[i], k), sort_key(docs[j], k))

\* x goes before y in the sorted output
sorts_before(x, y, k, reverse) ==
    IF reverse THEN py_lt(sort_key(y, k), sort_key(x, k))
    ELSE py_lt(sort_key(x, k), sort_key(y, k))

\* insert x into the sorted list after every element it does not go before
RECURSIVE sort_insert(_, _, _, _)
sort_insert(sorted, x, k, reverse) ==
    IF sorted = <<>> THEN <<x>>
    ELSE IF sorts_before(x, Head(sorted), k, reverse) THEN <<x>> \o sorted
    ELSE <<Head(sorted)>> \o sort_insert(Tail(sorted), x, k, reverse)

\* docs.sort(key=..., reverse=...): a stable sort
RECURSIVE stable_sort(_, _, _)
stable_sort(docs, k, reverse) ==
    IF docs = <<>> THEN <<>>
    ELSE sort_insert(stable_sort(SubSeq(docs, 1, Len(docs) - 1), k, reverse),
                     docs[Len(docs)], k, reverse)

\* the keys taken in declared order where the code takes them reversed: the last
\* declared key dominates
RECURSIVE stage_sort_forward(_, _)
stage_sort_forward(docs, sort_spec) ==
    IF sort_spec = <<>> THEN [docs |-> docs, exc |-> ""]
    ELSE LET k == sort_spec[1][1]
             direction == sort_spec[1][2]
         IN  IF sort_raises(docs, k) THEN [docs |-> docs, exc |-> "TypeError"]
             ELSE stage_sort_forward(stable_sort(docs, k, direction = -1),
                                     Tail(sort_spec))

\* the $sort stage: for key, direction in reversed(sort_spec.items())
RECURSIVE stage_sort(_, _)
stage_sort(docs, sort_spec) ==
    IF sort_spec = <<>> THEN [docs |-> docs, exc |-> ""]
    ELSE LET n == Len(sort_spec)
             k == sort_spec[n][1]
             direction == sort_spec[n][2]
         IN  IF sort_raises(docs, k) THEN [docs |-> docs, exc |-> "TypeError"]
             ELSE stage_sort(stable_sort(docs, k, direction = -1),
                             SubSeq(sort_spec, 1, n - 1))

\* one stage; a stage that is none of the three changes nothing
run_stage(docs, stage) ==
    CASE stage.name = "$unwind" ->
            [docs |-> stage_unwind(docs, split(lstrip_dollar(stage.arg))), exc |-> ""]
      [] stage.name = "$group" -> stage_group(docs, stage.arg)
      [] stage.name = "$sort" -> stage_sort(docs, stage.arg)
      [] OTHER -> [docs |-> docs, exc |-> ""]

\* for stage in pipeline
RECURSIVE run_pipeline(_, _)
run_pipeline(docs, pipeline) ==
    IF pipeline = <<>> THEN [docs |-> docs, exc |-> ""]
    ELSE LET r == run_stage(docs, Head(pipeline))
         IN  IF r.exc # "" THEN r ELSE run_pipeline(r.docs, Tail(pipeline))

\* the pipeline run on the stored documents themselves, where the code runs it
\* on deep copies
aggregate_stored(docs, pipeline) ==
    LET stored == [i \in DOMAIN docs.order |->
                        stored_ref(docs.order[i], docs.at[docs.order[i]])]
        r == run_pipeline(stored, pipeline)
    IN  IF r.exc # "" THEN Result(docs, Raise(r.exc), <<>>)
        ELSE Result(docs, Return(refs_value(r.docs)), r.docs)

\* aggregate(pipeline)
aggregate(docs, pipeline) ==
    LET copies == [i \in DOMAIN docs.order |->
                        deepcopy(stored_ref(docs.order[i], docs.at[docs.order[i]]))]
        r == run_pipeline(copies, pipeline)
    IN  IF r.exc # "" THEN Result(docs, Raise(r.exc), <<>>)
        ELSE Result(docs, Return(refs_value(r.docs)), r.docs)

(***************************************************************************)
(* The calls.  Each action is one call of a method on one of the two       *)
(* collections: it records the collections as they were, the call, its     *)
(* outcome and the references the caller got back.                         *)
(***************************************************************************)
Collections == {"activities", "teachers"}

\* the _docs of the named collection
docs_of(c) == IF c = "activities" THEN activities_collection ELSE teachers_collection

both == [activities |-> activities_collection, teachers |-> teachers_collection]

\* the end of a call on collection c with result r
finish(c, r, op) ==
    /\ steps < MaxSteps
    /\ steps' = steps + 1
    /\ pre' = both
    /\ call' = op
    /\ ret' = r.ret
    /\ held' = [coll |-> c, refs |-> r.refs,
                from |-> IF op.op = "caller_mutate" THEN held.from ELSE op.op]
    /\ IF c = "activities"
       THEN activities_collection' = r.docs /\ UNCHANGED teachers_collection
       ELSE teachers_collection' = r.docs /\ UNCHANGED activities_collection

call_count_documents(c, filter) ==
    finish(c, count_documents(docs_of(c), filter),
           [op |-> "count_documents", coll |-> c, filter |-> filter])

call_insert_one(c, document) ==
    finish(c, insert_one(docs_of(c), fresh_ref(document)),
           [op |-> "insert_one", coll |-> c, document |-> document])

call_find_one(c, filter) ==
    finish(c, find_one(docs_of(c), filter),
           [op |-> "find_one", coll |-> c, filter |-> filter])

call_find(c, filter) ==
    finish(c, find(docs_of(c), filter),
           [op |-> "find", coll |-> c, filter |-> filter])

call_update_one(c, filter, update) ==
    finish(c, update_one(docs_of(c), filter, update),
           [op |-> "update_one", coll |-> c, filter |-> filter, update |-> update])

call_aggregate(c, pipeline) ==
    finish(c, aggregate(docs_of(c), pipeline),
           [op |-> "aggregate", coll |-> c, pipeline |-> pipeline])

(***************************************************************************)
(* The caller mutating an object it got back from a read: obj[field] =     *)
(* value on a dict, obj.append(value) on a list.                           *)
(***************************************************************************)
RECURSIVE mutate_at(_, _, _)
mutate_at(x, p, m) ==
    IF p = <<>>
    THEN (IF x.k = "dict" THEN dict_set(x, m.field, m.value)
          ELSE PyList(Append(x.v, m.value)))
    ELSE dict_set(x, Head(p), mutate_at(x.v[Head(p)], Tail(p), m))

\* the store after the mutation of the object at path p of reference ref: every
\* stored object the mutated object is linked to changes with it
RECURSIVE mutate_linked(_, _, _)
mutate_linked(docs, links, m) ==
    IF links = {} THEN docs
    ELSE LET l == CHOOSE x \in links : TRUE
             rest == mutate_linked(docs, links \ {l}, m)
         IN  IF l.key \in DOMAIN rest.at /\ l.sp \in obj_paths(rest.at[l.key])
             THEN docs_set(rest, l.key, mutate_at(rest.at[l.key], l.sp, m))
             ELSE rest

caller_mutate(i, p, m) ==
    LET c == held.coll
        ref == held.refs[i]
        after == [val |-> mutate_at(ref.val, p, m),
                  links |-> {l \in ref.links :
                                l.hp = p \/ ~starts_with(l.hp, p \o <<m.field>>)}]
        r == Result(mutate_linked(docs_of(c), {l \in ref.links : l.hp = p}, m),
                    Return(PyNone),
                    [held.refs EXCEPT ![i] = after])
    IN  finish(c, r, [op |-> "caller_mutate", coll |-> c, index |-> i, path |-> p,
                      mutation |-> m])

(***************************************************************************)
(* The inputs of Spec: documents, filters, update expressions, pipelines.  *)
(***************************************************************************)
strs(l) == PyList([i \in DOMAIN l |-> PyStr(l[i])])
ints(l) == PyList([i \in DOMAIN l |-> PyInt(l[i])])

DocA ==
    PyDict("_id" :> PyInt(1) @@ "max_participants" :> PyInt(12)
           @@ "participants" :> strs(<<"a">>))
DocB ==
    PyDict("_id" :> PyInt(2) @@ "max_participants" :> PyInt(20)
           @@ "participants" :> strs(<<"a", "b">>)
           @@ "schedule_details" :> PyDict("days" :> strs(<<"x", "y">>)))
DocC == PyDict("_id" :> PyInt(1) @@ "max_participants" :> PyInt(30))
DocD ==
    PyDict("_id" :> PyInt(3) @@ "max_participants" :> PyInt(30)
           @@ "participants" :> strs(<<"b", "a", "b">>)
           @@ "schedule_details" :> PyDict("days" :> strs(<<"y">>)))
\* a document without _id: insert_one stores it under the key None
DocNoId == PyDict("participants" :> strs(<<"b">>))

InsertDocs == {DocA, DocB, DocC, DocD, DocNoId}

FilterAll == <<>>
FilterId1 == << <<"_id", PyInt(1)>> >>
FilterId2 == << <<"_id", PyInt(2)>> >>
FilterId1Max20 == << <<"_id", PyInt(1)>>, <<"max_participants", PyInt(20)>> >>
FilterRange ==
    << <<"max_participants", PyItems(<< <<"$gte", PyInt(15)>>, <<"$lte", PyInt(25)>> >>)>> >>
FilterIn == << <<"participants", PyItems(<< <<"$in", strs(<<"b", "c">>)>> >>)>> >>
FilterDays == << <<"schedule_details.days", PyItems(<< <<"$in", strs(<<"x">>)>> >>)>> >>
FilterIdIn == << <<"_id", PyItems(<< <<"$in", ints(<<1, 2>>)>> >>)>> >>
FilterMax12 == << <<"max_participants", PyInt(12)>> >>

Filters ==
    {FilterAll, FilterId1, FilterId2, FilterId1Max20, FilterRange, FilterIn,
     FilterDays, FilterIdIn, FilterMax12}

UpdatePush == << <<"$push", << <<"participants", PyStr("b")>> >> >> >>
UpdatePull == << <<"$pull", << <<"participants", PyStr("a")>> >> >> >>
UpdatePullB == << <<"$pull", << <<"participants", PyStr("b")>> >> >> >>
UpdateSetId == << <<"$set", << <<"_id", PyInt(2)>> >> >> >>
UpdateSetMax == << <<"$set", << <<"max_participants", PyInt(20)>> >> >> >>
UpdateMulti ==
    << <<"$set", << <<"max_participants", PyInt(30)>> >> >>,
       <<"$push", << <<"participants", PyStr("c")>> >> >>,
       <<"$pull", << <<"participants", PyStr("a")>> >> >> >>
UpdatePushId == << <<"$push", << <<"_id", PyStr("a")>> >> >> >>
UpdatePullId == << <<"$pull", << <<"_id", PyInt(1)>> >> >> >>
UpdateEmpty == <<>>
\* a $set whose value is a list the caller holds, followed by a $push to it
UpdateSetList == << <<"$set", << <<"participants", strs(<<"c">>)>> >> >> >>
UpdateSetListPush ==
    << <<"$set", << <<"participants", strs(<<"c">>)>> >> >>,
       <<"$push", << <<"participants", PyStr("b")>> >> >> >>

Updates ==
    {UpdatePush, UpdatePull, UpdatePullB, UpdateSetId, UpdateSetMax, UpdateMulti,
     UpdatePushId, UpdatePullId, UpdateEmpty, UpdateSetList, UpdateSetListPush}

Stage(name, arg) == [name |-> name, arg |-> arg]
GroupBy(expr) == Stage("$group", << <<"_id", PyStr(expr)>> >>)

PipelineParticipants == <<Stage("$unwind", "$participants"), GroupBy("$participants")>>
PipelineDays ==
    <<Stage("$unwind", "$schedule_details.days"), GroupBy("$schedule_details.days")>>
PipelineSort == <<Stage("$sort", << <<"max_participants", -1>> >>)>>
PipelineUnwind == <<Stage("$unwind", "$participants")>>
PipelineUnwindDays == <<Stage("$unwind", "$schedule_details.days")>>
PipelineUnwindDetails == <<Stage("$unwind", "$schedule_details")>>
PipelineUnwindMax == <<Stage("$unwind", "$max_participants")>>
\* a stage aggregate does not know
PipelineMatch == <<Stage("$match", FilterMax12)>>

Pipelines ==
    {PipelineParticipants, PipelineDays, PipelineSort, PipelineUnwind, PipelineUnwindDays,
     PipelineUnwindDetails, PipelineUnwindMax, PipelineMatch}

\* what the caller does to an object it holds
Mutations == {[field |-> "participants", value |-> PyStr("x")]}

(***************************************************************************)
(* Spec: any sequence of calls on one collection, from the empty           *)
(* collections the module creates.                                         *)
(***************************************************************************)
Init ==
    /\ activities_collection = EmptyDocs
    /\ teachers_collection = EmptyDocs
    /\ pre = [activities |-> EmptyDocs, teachers |-> EmptyDocs]
    /\ call = [op |-> "import"]
    /\ ret = Return(PyNone)
    /\ held = [coll |-> "activities", refs |-> <<>>, from |-> "import"]
    /\ steps = 0

Next ==
    \/ \E d \in InsertDocs : call_insert_one("activities", d)
    \/ \E f \in Filters, u \in Updates : call_update_one("activities", f, u)
    \/ \E f \in Filters : call_find_one("activities", f)
    \/ \E f \in Filters : call_find("activities", f)
    \/ \E f \in Filters : call_count_documents("activities", f)
    \/ \E p \in Pipelines : call_aggregate("activities", p)
    \/ \E i \in DOMAIN held.refs : \E p \in obj_paths(held.refs[i].val) :
            \E m \in Mutations : caller_mutate(i, p, m)

Spec == Init /\ [][Next]_vars

(***************************************************************************)
(* SpecMatch: _matches applied to one document and one query, drawn from   *)
(* bounded sets.                                                           *)
(***************************************************************************)
\* the scalars a list holds
MatchElems == {PyStr("a"), PyStr("b"), PyInt(1), PyNone}

\* the lists of at most two elements
MatchLists ==
    {PyList(<<>>)} \cup {PyList(<<x>>) : x \in MatchElems}
    \cup {PyList(<<x, y>>) : x, y \in MatchElems}

\* the values a field holds
MatchValues ==
    {PyNone, PyStr("a"), PyStr("b")} \cup {PyInt(n) : n \in 0..MaxInt} \cup MatchLists

\* documents with the value at the top-level field tags, at the nested path
\* schedule_details.days, or with the path absent (a missing key, a parent that
\* is no mapping)
MatchDocs ==
    {PyDict("_id" :> PyInt(1) @@ "tags" :> v) : v \in MatchValues}
    \cup {PyDict("_id" :> PyInt(1) @@ "schedule_details" :> PyDict("days" :> v)) :
            v \in MatchValues}
    \cup {PyDict("_id" :> PyInt(1)),
          PyDict("_id" :> PyInt(1) @@ "schedule_details" :> PyInt(1)),
          PyDict("_id" :> PyInt(1) @@ "schedule_details" :> strs(<<"a">>)),
          PyDict("_id" :> PyInt(1) @@ "schedule_details" :> PyDict("start_time" :> PyStr("a")))}

MatchPaths == {"tags", "schedule_details.days"}

MatchConditions ==
    {PyItems(<< <<"$in", o>> >>) : o \in MatchLists}
    \cup {PyItems(<< <<"$gte", PyInt(lo)>>, <<"$lte", PyInt(hi)>> >>) : lo, hi \in 0..MaxInt}
    \cup {PyItems(<< <<"$gte", PyInt(lo)>> >>) : lo \in 0..MaxInt}
    \cup {PyItems(<< <<"$lte", PyInt(hi)>> >>) : hi \in 0..MaxInt}

MatchQueries == {<< <<p, c>> >> : p \in MatchPaths, c \in MatchConditions}

\* the state before the call: a document and a query
InitMatch ==
    /\ activities_collection = EmptyDocs
    /\ teachers_collection = EmptyDocs
    /\ pre = [activities |-> EmptyDocs, teachers |-> EmptyDocs]
    /\ call \in {[op |-> "args", doc |-> doc, query |-> query] :
                    doc \in MatchDocs, query \in MatchQueries}
    /\ ret = Return(PyNone)
    /\ held = [coll |-> "activities", refs |-> <<>>, from |-> "import"]
    /\ steps = 0

call_matches(doc, query) ==
    LET r == matches(doc, query)
    IN  /\ call' = [op |-> "_matches", doc |-> doc, query |-> query]
        /\ ret' = IF r = "TypeError" THEN Raise(r) ELSE Return(PyBool(r = "True"))
        /\ UNCHANGED <<activities_collection, teachers_collection, pre, held, steps>>

NextMatch == call.op = "args" /\ call_matches(call.doc, call.query)

SpecMatch == InitMatch /\ [][NextMatch]_vars

(***************************************************************************)
(* The seed data and init_database.                                        *)
(***************************************************************************)
\* hash_password(password): the Argon2 hash, an opaque string; the module computes
\* it once for each teacher when it is imported
hash_password(password) ==
    PyStr(CASE password = "art123" -> "$argon2id$art123"
            [] password = "chess456" -> "$argon2id$chess456"
            [] password = "admin789" -> "$argon2id$admin789"
            [] OTHER -> "$argon2id$")

\* initial_activities.items(): the names and their details, in the order of the literal
initial_activities ==
    <<<<"Chess Club",
        PyDict("description" :> PyStr("Learn strategies and compete in chess tournaments")
               @@ "schedule" :> PyStr("Mondays and Fridays, 3:15 PM - 4:45 PM")
               @@ "schedule_details" :> PyDict("days" :> strs(<<"Monday", "Friday">>)
                   @@ "start_time" :> PyStr("15:15")
                   @@ "end_time" :> PyStr("16:45"))
               @@ "max_participants" :> PyInt(12)
               @@ "participants" :> strs(<<"michael@mergington.edu", "daniel@mergington.edu">>))>>,
      <<"Programming Class",
        PyDict("description" :> PyStr("Learn programming fundamentals and build software projects")
               @@ "schedule" :> PyStr("Tuesdays and Thursdays, 7:00 AM - 8:00 AM")
               @@ "schedule_details" :> PyDict("days" :> strs(<<"Tuesday", "Thursday">>)
                   @@ "start_time" :> PyStr("07:00")
                   @@ "end_time" :> PyStr("08:00"))
               @@ "max_participants" :> PyInt(20)
               @@ "participants" :> strs(<<"emma@mergington.edu", "sophia@mergington.edu">>))>>,
      <<"Morning Fitness",
        PyDict("description" :> PyStr("Early morning physical training and exercises")
               @@ "schedule" :> PyStr("Mondays, Wednesdays, Fridays, 6:30 AM - 7:45 AM")
               @@ "schedule_details" :> PyDict("days" :> strs(<<"Monday", "Wednesday", "Friday">>)
                   @@ "start_time" :> PyStr("06:30")
                   @@ "end_time" :> PyStr("07:45"))
               @@ "max_participants" :> PyInt(30)
               @@ "participants" :> strs(<<"john@mergington.edu", "olivia@mergington.edu">>))>>,
      <<"Soccer Team",
        PyDict("description" :> PyStr("Join the school soccer team and compete in matches")
               @@ "schedule" :> PyStr("Tuesdays and Thursdays, 3:30 PM - 5:30 PM")
               @@ "schedule_details" :> PyDict("days" :> strs(<<"Tuesday", "Thursday">>)
                   @@ "start_time" :> PyStr("15:30")
                   @@ "end_time" :> PyStr("17:30"))
               @@ "max_participants" :> PyInt(22)
               @@ "participants" :> strs(<<"liam@mergington.edu", "noah@mergington.edu">>))>>,
      <<"Basketball Team",
        PyDict("description" :> PyStr("Practice and compete in basketball tournaments")
               @@ "schedule" :> PyStr("Wednesdays and Fridays, 3:15 PM - 5:00 PM")
               @@ "schedule_details" :> PyDict("days" :> strs(<<"Wednesday", "Friday">>)
                   @@ "start_time" :> PyStr("15:15")
                   @@ "end_time" :> PyStr("17:00"))
               @@ "max_participants" :> PyInt(15)
               @@ "participants" :> strs(<<"ava@mergington.edu", "mia@mergington.edu">>))>>,
      <<"Art Club",
        PyDict("description" :> PyStr("Explore various art techniques and create masterpieces")
               @@ "schedule" :> PyStr("Thursdays, 3:15 PM - 5:00 PM")
               @@ "schedule_details" :> PyDict("days" :> strs(<<"Thursday">>)
                   @@ "start_time" :> PyStr("15:15")
                   @@ "end_time" :> PyStr("17:00"))
               @@ "max_participants" :> PyInt(15)
               @@ "participants" :> strs(<<"amelia@mergington.edu", "harper@mergington.edu">>))>>,
      <<"Drama Club",
        PyDict("description" :> PyStr("Act, direct, and produce plays and performances")
               @@ "schedule" :> PyStr("Mondays and Wednesdays, 3:30 PM - 5:30 PM")
               @@ "schedule_details" :> PyDict("days" :> strs(<<"Monday", "Wednesday">>)
                   @@ "start_time" :> PyStr("15:30")
                   @@ "end_time" :> PyStr("17:30"))
               @@ "max_participants" :> PyInt(20)
               @@ "participants" :> strs(<<"ella@mergington.edu", "scarlett@mergington.edu">>))>>,
      <<"Math Club",
        PyDict("description" :> PyStr("Solve challenging problems and prepare for math competitions")
               @@ "schedule" :> PyStr("Tuesdays, 7:15 AM - 8:00 AM")
               @@ "schedule_details" :> PyDict("days" :> strs(<<"Tuesday">>)
                   @@ "start_time" :> PyStr("07:15")
                   @@ "end_time" :> PyStr("08:00"))
               @@ "max_participants" :> PyInt(10)
               @@ "participants" :> strs(<<"james@mergington.edu", "benjamin@mergington.edu">>))>>,
      <<"Debate Team",
        PyDict("description" :> PyStr("Develop public speaking and argumentation skills")
               @@ "schedule" :> PyStr("Fridays, 3:30 PM - 5:30 PM")
               @@ "schedule_details" :> PyDict("days" :> strs(<<"Friday">>)
                   @@ "start_time" :> PyStr("15:30")
                   @@ "end_time" :> PyStr("17:30"))
               @@ "max_participants" :> PyInt(12)
               @@ "participants" :> strs(<<"charlotte@mergington.edu", "amelia@mergington.edu">>))>>,
      <<"Weekend Robotics Workshop",
        PyDict("description" :> PyStr("Build and program robots in our state-of-the-art workshop")
               @@ "schedule" :> PyStr("Saturdays, 10:00 AM - 2:00 PM")
               @@ "schedule_details" :> PyDict("days" :> strs(<<"Saturday">>)
                   @@ "start_time" :> PyStr("10:00")
                   @@ "end_time" :> PyStr("14:00"))
               @@ "max_participants" :> PyInt(15)
               @@ "participants" :> strs(<<"ethan@mergington.edu", "oliver@mergington.edu">>))>>,
      <<"Science Olympiad",
        PyDict("description" :> PyStr("Weekend science competition preparation for regional and state events")
               @@ "schedule" :> PyStr("Saturdays, 1:00 PM - 4:00 PM")
               @@ "schedule_details" :> PyDict("days" :> strs(<<"Saturday">>)
                   @@ "start_time" :> PyStr("13:00")
                   @@ "end_time" :> PyStr("16:00"))
               @@ "max_participants" :> PyInt(18)
               @@ "participants" :> strs(<<"isabella@mergington.edu", "lucas@mergington.edu">>))>>,
      <<"Sunday Chess Tournament",
        PyDict("description" :> PyStr("Weekly tournament for serious chess players with rankings")
               @@ "schedule" :> PyStr("Sundays, 2:00 PM - 5:00 PM")
               @@ "schedule_details" :> PyDict("days" :> strs(<<"Sunday">>)
                   @@ "start_time" :> PyStr("14:00")
                   @@ "end_time" :> PyStr("17:00"))
               @@ "max_participants" :> PyInt(16)
               @@ "participants" :> strs(<<"william@mergington.edu", "jacob@mergington.edu">>))>>>>

\* initial_teachers, built once when the module is imported
initial_teachers ==
    <<PyDict("username" :> PyStr("mrodriguez")
             @@ "display_name" :> PyStr("Ms. Rodriguez")
             @@ "password" :> hash_password("art123")
             @@ "role" :> PyStr("teacher")),
      PyDict("username" :> PyStr("mchen")
             @@ "display_name" :> PyStr("Mr. Chen")
             @@ "password" :> hash_password("chess456")
             @@ "role" :> PyStr("teacher")),
      PyDict("username" :> PyStr("principal")
             @@ "display_name" :> PyStr("Principal Martinez")
             @@ "password" :> hash_password("admin789")
             @@ "role" :> PyStr("admin"))>>

\* {"_id": id, **details}
with_id(id, details) ==
    PyDict([f \in DOMAIN details.v \cup {"_id"} |->
                IF f \in DOMAIN details.v THEN details.v[f] ELSE id])

\* for name, details in initial_activities.items(): insert_one({"_id": name, **details})
RECURSIVE seed_activities(_, _)
seed_activities(docs, items) ==
    IF items = <<>> THEN docs
    ELSE seed_activities(
            insert_one(docs, fresh_ref(with_id(PyStr(items[1][1]), items[1][2]))).docs,
            Tail(items))

\* for teacher in initial_teachers: insert_one({"_id": teacher["username"], **teacher})
RECURSIVE seed_teachers(_, _)
seed_teachers(docs, teachers) ==
    IF teachers = <<>> THEN docs
    ELSE seed_teachers(
            insert_one(docs, fresh_ref(with_id(Head(teachers).v["username"], Head(teachers)))).docs,
            Tail(teachers))

\* whether count_documents({}) == 0
is_empty(docs) == count_documents(docs, <<>>).ret = Return(PyInt(0))

\* init_database without the two count_documents({}) == 0 tests
init_database_unguarded(b) ==
    [activities |-> seed_activities(b.activities, initial_activities),
     teachers |-> seed_teachers(b.teachers, initial_teachers)]

\* init_database(): both collections after the call
init_database(b) ==
    [activities |-> IF is_empty(b.activities)
                    THEN seed_activities(b.activities, initial_activities)
                    ELSE b.activities,
     teachers |-> IF is_empty(b.teachers)
                  THEN seed_teachers(b.teachers, initial_teachers)
                  ELSE b.teachers]

call_init_database ==
    LET after == init_database(both)
    IN  /\ steps < MaxSteps
        /\ steps' = steps + 1
        /\ pre' = both
        /\ call' = [op |-> "init_database"]
        /\ ret' = Return(PyNone)
        /\ held' = [coll |-> "activities", refs |-> <<>>, from |-> "init_database"]
        /\ activities_collection' = after.activities
        /\ teachers_collection' = after.teachers

(***************************************************************************)
(* SpecSeed: init_database and writes on both collections, in any order.   *)
(***************************************************************************)
SeedFilters ==
    {<< <<"_id", PyStr("Chess Club")>> >>,
     << <<"_id", PyStr("mchen")>> >>,
     << <<"max_participants", PyItems(<< <<"$gte", PyInt(20)>> >>)>> >>}

SeedUpdates ==
    {<< <<"$push", << <<"participants", PyStr("new@mergington.edu")>> >> >> >>,
     << <<"$pull", << <<"participants", PyStr("michael@mergington.edu")>> >> >> >>,
     << <<"$set", << <<"role", PyStr("admin")>> >> >> >>}

SeedInserts ==
    {PyDict("_id" :> PyStr("Chess Club") @@ "max_participants" :> PyInt(1)),
     PyDict("_id" :> PyStr("guest") @@ "role" :> PyStr("teacher"))}

NextSeed ==
    \/ call_init_database
    \/ \E c \in Collections : \E f \in SeedFilters, u \in SeedUpdates :
            call_update_one(c, f, u)
    \/ \E c \in Collections : \E d \in SeedInserts : call_insert_one(c, d)

SpecSeed == Init /\ [][NextSeed]_vars

(***************************************************************************)
(* SpecSort: one aggregate call with a single $sort stage on a collection  *)
(* of up to MaxSortDocs documents, inserted with _id 1, 2, ... in that     *)
(* order; a document holds a number or a string at field a, or lacks it,   *)
(* and a number at field b.                                                *)
(***************************************************************************)
\* the marker of a field the document does not have
NoField == [k |-> "nofield", v |-> 0]

\* the document {_id: id, a: a, b: b} without the fields that are NoField
sort_doc(id, a, b) ==
    PyDict([f \in {"_id"} \cup (IF a = NoField THEN {} ELSE {"a"})
                          \cup (IF b = NoField THEN {} ELSE {"b"}) |->
                IF f = "_id" THEN PyInt(id) ELSE IF f = "a" THEN a ELSE b])

SortAs == {NoField, PyInt(1), PyInt(2), PyStr("a")}
SortBs == {PyInt(1), PyInt(2)}

\* the collection after insert_one of each document of the sequence
RECURSIVE inserted(_)
inserted(documents) ==
    IF documents = <<>> THEN EmptyDocs
    ELSE insert_one(inserted(SubSeq(documents, 1, Len(documents) - 1)),
                    fresh_ref(documents[Len(documents)])).docs

SortCollections ==
    {inserted([i \in 1..n |-> sort_doc(i, as[i], bs[i])]) :
        <<n, as, bs>> \in UNION {{<<n, as, bs>> : as \in [1..n -> SortAs], bs \in [1..n -> SortBs]} :
                                    n \in 0..MaxSortDocs}}

SortSpecs ==
    {<< <<k, d>> >> : k \in {"a", "b"}, d \in {1, -1}}
    \cup {<< <<"a", d>>, <<"b", e>> >> : d, e \in {1, -1}}
    \cup {<< <<"b", d>>, <<"a", e>> >> : d, e \in {1, -1}}

SortPipelines == {<<Stage("$sort", spec)>> : spec \in SortSpecs}

InitSort ==
    /\ activities_collection \in SortCollections
    /\ teachers_collection = EmptyDocs
    /\ pre = [activities |-> EmptyDocs, teachers |-> EmptyDocs]
    /\ call = [op |-> "import"]
    /\ ret = Return(PyNone)
    /\ held = [coll |-> "activities", refs |-> <<>>, from |-> "import"]
    /\ steps = 0

NextSort == steps = 0 /\ \E p \in SortPipelines : call_aggregate("activities", p)

SpecSort == InitSort /\ [][NextSort]_vars

(***************************************************************************)
(* The properties.                                                         *)
(***************************************************************************)
\* C1: every document stored under key k has _id equal to k (a document inserted
\* without _id is stored under None, which is what its _id reads as), in every
\* state insert_one and update_one calls reach.
C1_IdEqualsKey ==
    \A c \in Collections : \A key \in DOMAIN both[c].at :
        dict_get(both[c].at[key], "_id") = key

\* C2: an update_one whose filter no stored document satisfies does not report a
\* modified document and leaves the collection as it was.
C2_NoMatchNoUpdate ==
    (/\ call.op = "update_one"
     /\ \A key \in DOMAIN pre[call.coll].at :
            matches(pre[call.coll].at[key], call.filter) = "False")
    => (ret # Return(PyInt(1)) /\ both[call.coll] = pre[call.coll])

\* what every read of a collection returns, over the filters and pipelines
reads(docs) ==
    [find |-> [f \in Filters |-> find(docs, f).ret],
     find_one |-> [f \in Filters |-> find_one(docs, f).ret],
     count_documents |-> [f \in Filters |-> count_documents(docs, f).ret],
     aggregate |-> [p \in Pipelines |-> aggregate(docs, p).ret]]

\* C3: after the caller mutated, at any depth, a document that find or find_one
\* returned, find, find_one, count_documents and aggregate return what they
\* returned before the mutation.
C3_ReadsUnaffected ==
    (call.op = "caller_mutate" /\ held.from \in {"find", "find_one"})
    => reads(both[call.coll]) = reads(pre[call.coll])

\* the caller changed a nested object of a document find or find_one returned, and
\* its copy now differs from the stored document it was read from
C3_Witness ==
    /\ call.op = "caller_mutate"
    /\ held.from \in {"find", "find_one"}
    /\ call.path # <<>>
    /\ LET v == held.refs[call.index].val
           key == dict_get(v, "_id")
       IN  /\ key \in DOMAIN both[call.coll].at
           /\ both[call.coll].at[key] # v
           /\ dict_get(both[call.coll].at[key], "_id") = key

\* C4: right after insert_one(d) of a document with an _id (one that is not None:
\* the code reads a None _id as no _id), find_one({"_id": d._id}) returns a
\* document equal to d, whether or not the _id was stored before.
C4_InsertThenFindOne ==
    (/\ call.op = "insert_one"
     /\ dict_get(call.document, "_id") # PyNone)
    => /\ ret = Return(PyNone)
       /\ find_one(both[call.coll], << <<"_id", dict_get(call.document, "_id")>> >>).ret
            = Return(call.document)

\* insert_one replaced a different document stored under the same _id
C4_Witness ==
    /\ call.op = "insert_one"
    /\ LET id == dict_get(call.document, "_id")
       IN  /\ id # PyNone
           /\ id \in DOMAIN pre[call.coll].at
           /\ pre[call.coll].at[id] # call.document
           /\ DOMAIN pre[call.coll].at[id].v # DOMAIN call.document.v

\* the collections right after the first init_database
Seeded == init_database([activities |-> EmptyDocs, teachers |-> EmptyDocs])

\* C5: a second init_database changes nothing; after init_database on the empty
\* collections each holds exactly the seed documents; and init_database leaves a
\* collection that is not empty as it is, also after update_one changed it.
C5_InitIdempotent ==
    /\ call.op = "init_database" => init_database(both) = both
    /\ (/\ call.op = "init_database"
        /\ is_empty(pre.activities) /\ is_empty(pre.teachers))
       => /\ Len(activities_collection.order) = Len(initial_activities)
          /\ Len(teachers_collection.order) = Len(initial_teachers)
          /\ both = Seeded
    /\ \A c \in Collections :
        /\ (call.op = "init_database" /\ ~is_empty(pre[c])) => both[c] = pre[c]
        /\ ~is_empty(both[c]) => init_database(both)[c] = both[c]

\* init_database ran on collections that were seeded, one of them then changed
\* by an update_one
C5_Witness ==
    /\ call.op = "init_database"
    /\ ~is_empty(pre.activities) /\ ~is_empty(pre.teachers)
    /\ pre.activities # Seeded.activities
    /\ pre.activities.order = Seeded.activities.order
    /\ pre.teachers = Seeded.teachers

\* the elements of a list, as a set
elements(lst) == {lst.v[i] : i \in DOMAIN lst.v}

\* {"$push": {field: value}} and {"$pull": {field: value}}
push_of(field, value) == << <<"$push", << <<field, value>> >> >> >>
pull_of(field, value) == << <<"$pull", << <<field, value>> >> >> >>

\* C6: after update_one(f, {$push: {F: b}}) selected the stored document D whose
\* F held the sequence S, an update_one(f, {$pull: {F: a}}) with a in S, a # b,
\* that selects D again leaves D's F as S without (the first) a and with b at the
\* end, and find_one(f) then returns a document showing that value.
C6_PushThenPull ==
    (/\ call.op = "update_one"
     /\ ret = Return(PyInt(1))
     /\ \E b \in {PyStr("b")} : call.update = push_of("participants", b))
    => LET docs == both[call.coll]
           f == call.filter
           b == call.update[1][2][1][2]
           key == select_one(pre[call.coll], f).key
           S == dict_get(pre[call.coll].at[key], "participants")
       IN  \A a \in IF isinstance_list(S) THEN elements(S) ELSE {} :
            (a # b /\ select_one(docs, f) = [key |-> key, exc |-> ""])
            => LET r == update_one(docs, f, pull_of("participants", a))
                   expected == PyList(Append(list_remove(S.v, a), b))
                   shown == find_one(r.docs, f).ret
               IN  /\ r.ret = Return(PyInt(1))
                   /\ r.docs.at[key].v["participants"] = expected
                   /\ shown.kind = "return"
                   /\ shown.val # PyNone
                   /\ dict_get(shown.val, "participants") = expected

\* C7: find_one(f) returns the first document of find(f), and None exactly when
\* find(f) is empty, for scanned filters and for _id-only filters alike.
C7_FindOneIsFirstOfFind ==
    call.op = "find_one"
    => LET all == find(pre[call.coll], call.filter).ret
       IN  /\ all.kind = "return"
           /\ ret = Return(IF all.val.v = <<>> THEN PyNone ELSE all.val.v[1])

\* the value a document of MatchDocs holds at a path of MatchPaths, None when
\* the path is absent from it
value_at(doc, path) ==
    IF path = "tags"
    THEN (IF "tags" \in DOMAIN doc.v THEN doc.v["tags"] ELSE PyNone)
    ELSE IF "schedule_details" \notin DOMAIN doc.v THEN PyNone
    ELSE IF doc.v["schedule_details"].k # "dict" THEN PyNone
    ELSE IF "days" \notin DOMAIN doc.v["schedule_details"].v THEN PyNone
    ELSE doc.v["schedule_details"].v["days"]

\* the path and the condition of a query with one path
query_path(query) == query[1][1]
query_condition(query) == query[1][2].v

\* C8: {p: {$in: O}} matches iff the value at p is a sequence with at least one
\* element in O, or is no sequence and is itself in O (an absent path reads as
\* None); tags = [a, b] matches $in [b, c] and does not match $in [x, y].
C8_InMatches ==
    /\ (/\ call.op = "_matches"
        /\ Len(query_condition(call.query)) = 1
        /\ query_condition(call.query)[1][1] = "$in")
       => LET v == value_at(call.doc, query_path(call.query))
              O == elements(query_condition(call.query)[1][2])
          IN  ret = Return(PyBool(IF v.k = "list" THEN elements(v) \cap O # {}
                                  ELSE v \in O))
    /\ matches(PyDict("tags" :> strs(<<"a", "b">>)),
               << <<"tags", PyItems(<< <<"$in", strs(<<"b", "c">>)>> >>)>> >>) = "True"
    /\ matches(PyDict("tags" :> strs(<<"a", "b">>)),
               << <<"tags", PyItems(<< <<"$in", strs(<<"x", "y">>)>> >>)>> >>) = "False"

\* a sequence with one element in O and one not in O matched
C8_Witness ==
    /\ call.op = "_matches"
    /\ query_condition(call.query)[1][1] = "$in"
    /\ LET v == value_at(call.doc, query_path(call.query))
           O == elements(query_condition(call.query)[1][2])
       IN  /\ v.k = "list"
           /\ elements(v) \cap O # {}
           /\ elements(v) \ O # {}
           /\ O \ elements(v) # {}
    /\ ret = Return(PyBool(TRUE))

\* the collection holding documents with max_participants 12, 20 and 30
Docs12_20_30 ==
    insert_one(insert_one(insert_one(EmptyDocs, fresh_ref(DocA)).docs,
                          fresh_ref(DocB)).docs,
               fresh_ref(DocD)).docs

\* C9: {p: {$gte: lo, $lte: hi}} matches iff the value at p is present and
\* lo <= v <= hi; an absent path satisfies no $gte and no $lte; over documents
\* with 12, 20 and 30 the bounds 15..25 select only the document with 20.
C9_RangeMatches ==
    /\ (/\ call.op = "_matches"
        /\ query_condition(call.query)[1][1] \in {"$gte", "$lte"})
       => LET v == value_at(call.doc, query_path(call.query))
              c == query_condition(call.query)
              holds(i) == IF c[i][1] = "$gte" THEN c[i][2].v <= v.v ELSE v.v <= c[i][2].v
          IN  /\ ret = Return(PyBool(TRUE))
                    <=> (v.k = "int" /\ \A i \in DOMAIN c : holds(i))
              /\ v = PyNone => ret = Return(PyBool(FALSE))
    /\ find(Docs12_20_30, FilterRange).ret = Return(PyList(<<DocB>>))
    /\ count_documents(Docs12_20_30, FilterRange).ret = Return(PyInt(1))

\* a value equal to both bounds matched
C9_Witness ==
    /\ call.op = "_matches"
    /\ Len(query_condition(call.query)) = 2
    /\ query_condition(call.query)[1][1] = "$gte"
    /\ LET v == value_at(call.doc, query_path(call.query))
           c == query_condition(call.query)
       IN  v.k = "int" /\ c[1][2] = v /\ c[2][2] = v
    /\ query_path(call.query) = "schedule_details.days"
    /\ ret = Return(PyBool(TRUE))

\* the sequence every document of the collection holds at the unwound path of the
\* pipeline, as a set of sequences; {} when some document holds none there
unwound_lists(docs, pipeline) ==
    LET parts == split(lstrip_dollar(pipeline[1].arg))
        at_path(doc) == IF Len(parts) = 1 THEN dict_get(doc, parts[1])
                        ELSE LET parent == dict_get(doc, parts[1])
                             IN  IF parent.k = "dict" THEN dict_get(parent, parts[2])
                                 ELSE PyNone
    IN  [i \in DOMAIN docs.order |-> at_path(docs.at[docs.order[i]])]

\* C10: over a collection whose documents each hold a sequence at P,
\* [{$unwind: "$P"}, {$group: {_id: "$P"}}] returns one document per distinct
\* element of the sequences, none missing and none twice, each with the one
\* field _id holding the element.
C10_UnwindGroupDistinct ==
    (/\ call.op = "aggregate"
     /\ call.pipeline \in {PipelineParticipants, PipelineDays}
     /\ \A i \in DOMAIN pre[call.coll].order :
            unwound_lists(pre[call.coll], call.pipeline)[i].k = "list")
    => LET lists == unwound_lists(pre[call.coll], call.pipeline)
           distinct == UNION {elements(lists[i]) : i \in DOMAIN lists}
       IN  /\ ret.kind = "return"
           /\ \A i \in DOMAIN ret.val.v : DOMAIN ret.val.v[i].v = {"_id"}
           /\ {ret.val.v[i].v["_id"] : i \in DOMAIN ret.val.v} = distinct
           /\ Len(ret.val.v) = Cardinality(distinct)

\* two documents whose sequences share an element, and an element occurring twice
\* in one sequence
C10_Witness ==
    /\ call.op = "aggregate"
    /\ call.pipeline \in {PipelineParticipants, PipelineDays}
    /\ LET lists == unwound_lists(pre[call.coll], call.pipeline)
       IN  /\ Len(lists) = 2
           /\ \A i \in DOMAIN lists : lists[i].k = "list"
           /\ elements(lists[1]) \cap elements(lists[2]) # {}
           /\ \E i \in DOMAIN lists : Len(lists[i].v) > Cardinality(elements(lists[i]))
    /\ ret.kind = "return"
    /\ Len(ret.val.v) = 2

\* the call is an aggregate whose pipeline is one $sort stage
is_sort_call ==
    call.op = "aggregate" /\ Len(call.pipeline) = 1 /\ call.pipeline[1].name = "$sort"

\* every document carries every declared key, and the values of a key are all
\* numbers or all strings
sortable(docs, spec) ==
    \A i \in DOMAIN spec : \A x, y \in DOMAIN docs :
        /\ spec[i][1] \in DOMAIN docs[x].v
        /\ spec[i][1] \in DOMAIN docs[y].v
        /\ orderable(docs[x].v[spec[i][1]], docs[y].v[spec[i][1]])

\* x and y hold equal values at every declared key
equal_on(x, y, spec) == \A i \in DOMAIN spec : x.v[spec[i][1]] = y.v[spec[i][1]]

\* x goes strictly before y under the spec: at the first declared key where they
\* differ, x holds the smaller value for direction 1, the greater for -1
RECURSIVE sort_precedes(_, _, _)
sort_precedes(x, y, spec) ==
    IF spec = <<>> THEN FALSE
    ELSE LET k == spec[1][1]
         IN  IF x.v[k] = y.v[k] THEN sort_precedes(x, y, Tail(spec))
             ELSE IF spec[1][2] = -1 THEN py_lt(y.v[k], x.v[k])
             ELSE py_lt(x.v[k], y.v[k])

\* the position of document d in a sequence of distinct documents
index_of(docs, d) == CHOOSE i \in DOMAIN docs : docs[i] = d

\* C11: a $sort stage over documents that carry the declared keys returns a
\* permutation of its input in which no document goes before one that precedes it
\* under the spec (first key first, later keys breaking ties, ascending for 1 and
\* descending for -1), and documents equal on all declared keys keep their input
\* order; [{_id:1,a:1,b:2},{_id:2,a:1,b:1}] sorted by {a:1,b:1} comes out as 2, 1.
C11_SortOrdered ==
    /\ (is_sort_call /\ sortable(docs_values(pre.activities), call.pipeline[1].arg))
       => /\ ret.kind = "return"
          /\ LET input == docs_values(pre.activities)
                 spec == call.pipeline[1].arg
                 out == ret.val.v
             IN  /\ Len(out) = Len(input)
                 /\ \A i \in DOMAIN input : \E j \in DOMAIN out : out[j] = input[i]
                 /\ \A i, j \in DOMAIN out :
                        i < j => /\ ~sort_precedes(out[j], out[i], spec)
                                 /\ equal_on(out[i], out[j], spec)
                                    => index_of(input, out[i]) < index_of(input, out[j])
    /\ aggregate(inserted(<<sort_doc(1, PyInt(1), PyInt(2)), sort_doc(2, PyInt(1), PyInt(1))>>),
                 <<Stage("$sort", << <<"a", 1>>, <<"b", 1>> >>)>>).ret
       = Return(PyList(<<sort_doc(2, PyInt(1), PyInt(1)), sort_doc(1, PyInt(1), PyInt(2))>>))

\* a sort by two keys, the first descending, of three documents two of which are
\* equal on both keys, that changes the order
C11_Witness ==
    /\ is_sort_call
    /\ sortable(docs_values(pre.activities), call.pipeline[1].arg)
    /\ Len(call.pipeline[1].arg) = 2
    /\ call.pipeline[1].arg[1][2] = -1
    /\ Len(pre.activities.order) = 3
    /\ \E i, j \in 1..3 :
            /\ i < j
            /\ equal_on(docs_values(pre.activities)[i], docs_values(pre.activities)[j],
                        call.pipeline[1].arg)
    /\ ret.kind = "return"
    /\ ret.val.v # docs_values(pre.activities)

\* C12: an insert_one of a document whose _id some stored document already has
\* raises nothing, leaves the number of documents unchanged, and leaves exactly the
\* inserted document where the old one was, every other document as it was.
C12_InsertOverwrites ==
    (/\ call.op = "insert_one"
     /\ \E key \in DOMAIN pre[call.coll].at :
            dict_get(pre[call.coll].at[key], "_id") = dict_get(call.document, "_id"))
    => LET before == pre[call.coll]
           after == both[call.coll]
           id == dict_get(call.document, "_id")
       IN  /\ ret = Return(PyNone)
           /\ count_documents(after, <<>>).ret = count_documents(before, <<>>).ret
           /\ after.order = before.order
           /\ \A key \in DOMAIN after.at :
                IF dict_get(before.at[key], "_id") = id
                THEN after.at[key] = call.document
                ELSE after.at[key] = before.at[key]

\* the value a document holds at a path, None when a segment is missing or a
\* parent is no mapping
RECURSIVE at_path(_, _)
at_path(value, parts) ==
    IF parts = <<>> THEN value
    ELSE IF value.k = "dict" /\ Head(parts) \in DOMAIN value.v
    THEN at_path(value.v[Head(parts)], Tail(parts))
    ELSE PyNone

\* the document with the value at an existing path replaced
RECURSIVE replaced_at(_, _, _)
replaced_at(doc, parts, v) ==
    IF parts = <<>> THEN v
    ELSE PyDict([f \in DOMAIN doc.v |->
                    IF f = Head(parts) THEN replaced_at(doc.v[f], Tail(parts), v)
                    ELSE doc.v[f]])

\* what $unwind is to emit for one document: one output per element of the
\* sequence at the path, the document itself when the path holds no sequence
unwound(doc, parts) ==
    LET value == at_path(doc, parts)
    IN  IF value.k = "list"
        THEN [i \in DOMAIN value.v |-> replaced_at(doc, parts, value.v[i])]
        ELSE <<doc>>

RECURSIVE unwound_all(_, _)
unwound_all(docs, parts) ==
    IF docs = <<>> THEN <<>>
    ELSE unwound(Head(docs), parts) \o unwound_all(Tail(docs), parts)

\* C13: a $unwind stage emits, for every input document in order, the document
\* itself once and unchanged when its path holds no sequence (a scalar, a mapping,
\* null, or the path is absent), and otherwise one output per element of the
\* sequence, with the field replaced by the element and all else equal.
C13_UnwindPassesThrough ==
    (/\ call.op = "aggregate"
     /\ Len(call.pipeline) = 1
     /\ call.pipeline[1].name = "$unwind")
    => ret = Return(PyList(unwound_all(docs_values(pre[call.coll]),
                                       split(lstrip_dollar(call.pipeline[1].arg)))))

\* C14: an aggregate whose pipeline holds a stage that is none of $unwind, $group,
\* $sort ends in an error, it returns no documents.
C14_UnknownStageIsError ==
    (/\ call.op = "aggregate"
     /\ \E i \in DOMAIN call.pipeline :
            call.pipeline[i].name \notin {"$unwind", "$group", "$sort"})
    => ret.kind = "raise"

\* the values the documents that have key k hold for it
present_values(docs, k) == {docs[i].v[k] : i \in {j \in DOMAIN docs : k \in DOMAIN docs[j].v}}

\* the values present for each declared key are all numbers or all strings
typed(docs, spec) ==
    \A i \in DOMAIN spec : \A a, b \in present_values(docs, spec[i][1]) : orderable(a, b)

\* the empty value of the type the documents hold for key k: 0 among numbers, the
\* empty string among strings
zero_of(docs, k) ==
    IF \E a \in present_values(docs, k) : a.k = "int" THEN PyInt(0) ELSE PyStr("")

\* the document with every declared key it lacks holding the empty value
filled(doc, docs, spec) ==
    PyDict([f \in DOMAIN doc.v \cup {spec[i][1] : i \in DOMAIN spec} |->
                IF f \in DOMAIN doc.v THEN doc.v[f] ELSE zero_of(docs, f)])

\* C15: a $sort stage over documents some of which lack a sort key never fails: it
\* returns a permutation of its input, ordered (and stable) as the spec orders the
\* documents once every lacking key holds the empty value of the type the other
\* documents hold for it.
C15_SortAbsentAsEmpty ==
    (is_sort_call /\ typed(docs_values(pre.activities), call.pipeline[1].arg))
    => /\ ret.kind = "return"
       /\ LET input == docs_values(pre.activities)
              spec == call.pipeline[1].arg
              out == ret.val.v
              fill(d) == filled(d, input, spec)
          IN  /\ Len(out) = Len(input)
              /\ \A i \in DOMAIN input : \E j \in DOMAIN out : out[j] = input[i]
              /\ \A i, j \in DOMAIN out :
                    i < j => /\ ~sort_precedes(fill(out[j]), fill(out[i]), spec)
                             /\ equal_on(fill(out[i]), fill(out[j]), spec)
                                => index_of(input, out[i]) < index_of(input, out[j])

\* C16: the modified_count update_one returns is 1 when some stored document
\* satisfies the filter and 0 when none does, whatever the operators do to the
\* document: a $pull of a value that is not there, a $set to the current value and
\* an empty update expression return 1 as well.
C16_ModifiedCount ==
    (call.op = "update_one" /\ ret.kind = "return")
    => ret = Return(PyInt(IF \E key \in DOMAIN pre[call.coll].at :
                                matches(pre[call.coll].at[key], call.filter) = "True"
                          THEN 1 ELSE 0))

\* the update expression is one $pull of one value from one field
is_pull(update) ==
    Len(update) = 1 /\ update[1][1] = "$pull" /\ Len(update[1][2]) = 1

\* the sequence without its first element equal to v
without_first(l, v) ==
    LET i == CHOOSE n \in DOMAIN l : l[n] = v /\ \A m \in 1..(n - 1) : l[m] # v
    IN  SubSeq(l, 1, i - 1) \o SubSeq(l, i + 1, Len(l))

\* C17: a $pull of v from field F of the selected document, F absent or holding a
\* sequence, takes out the first element equal to v and keeps every other element
\* in order, later duplicates of v included; with F absent or holding no v the
\* stored document is unchanged and F is not created.
C17_PullRemovesFirst ==
    (/\ call.op = "update_one"
     /\ is_pull(call.update)
     /\ select_one(pre[call.coll], call.filter).exc = ""
     /\ select_one(pre[call.coll], call.filter).key # NoKey
     /\ LET old == pre[call.coll].at[select_one(pre[call.coll], call.filter).key]
            F == call.update[1][2][1][1]
        IN  F \in DOMAIN old.v => old.v[F].k = "list")
    => LET key == select_one(pre[call.coll], call.filter).key
           old == pre[call.coll].at[key]
           new == both[call.coll].at[key]
           F == call.update[1][2][1][1]
           v == call.update[1][2][1][2]
       IN  IF F \in DOMAIN old.v /\ \E n \in DOMAIN old.v[F].v : old.v[F].v[n] = v
           THEN /\ DOMAIN new.v = DOMAIN old.v
                /\ \A f \in DOMAIN old.v \ {F} : new.v[f] = old.v[f]
                /\ new.v[F] = PyList(without_first(old.v[F].v, v))
           ELSE new = old

\* a $pull of a value the sequence holds twice, with another element in between
C17_Witness ==
    /\ call.op = "update_one"
    /\ is_pull(call.update)
    /\ select_one(pre[call.coll], call.filter).key = PyInt(3)
    /\ pre[call.coll].at[PyInt(3)].v["participants"] = strs(<<"b", "a", "b">>)
    /\ call.update[1][2][1] = <<"participants", PyStr("b")>>
    /\ both[call.coll].at[PyInt(3)].v["participants"] = strs(<<"a", "b">>)
    /\ ret = Return(PyInt(1))

\* C18: after the caller mutated the document it passed to insert_one, or a list
\* or dict that a $set or $push of update_one stored, find, find_one,
\* count_documents and aggregate return what they returned before the mutation.
C18_WritesUnaffected ==
    (call.op = "caller_mutate" /\ held.from \in {"insert_one", "update_one"})
    => reads(both[call.coll]) = reads(pre[call.coll])

\* the keys of the stored documents that satisfy the filter
satisfying(docs, filter) == {key \in DOMAIN docs.at : matches(docs.at[key], filter) = "True"}

\* the first key in insertion order among those of a non-empty set
first_of(docs, keys) ==
    docs.order[CHOOSE i \in DOMAIN docs.order :
                    /\ docs.order[i] \in keys
                    /\ \A j \in 1..(i - 1) : docs.order[j] \notin keys]

\* C19: an update_one call leaves the keys and the insertion order as they were
\* and changes at most one stored document, which is the first in insertion order
\* that satisfies the filter; when it returns 1, that document is the old one with
\* every operator of the update expression applied to it.
C19_UpdatesFirstMatchOnly ==
    call.op = "update_one"
    => LET before == pre[call.coll]
           after == both[call.coll]
           hits == satisfying(before, call.filter)
           changed == {key \in DOMAIN before.at : after.at[key] # before.at[key]}
       IN  /\ after.order = before.order
           /\ DOMAIN after.at = DOMAIN before.at
           /\ Cardinality(changed) <= 1
           /\ \A key \in changed : hits # {} /\ key = first_of(before, hits)
           /\ (ret = Return(PyInt(1)) /\ hits # {})
              => after.at[first_of(before, hits)]
                 = apply_update(before.at[first_of(before, hits)],
                                update_items(call.update)).doc

\* the calls that only read
ReadOps == {"count_documents", "find", "find_one", "aggregate"}

\* C20: count_documents, find, find_one and aggregate leave both collections as
\* they were, for every filter and pipeline, and nothing they return is a stored
\* object: a caller's mutation of a returned document, a document $unwind rewrote
\* or one a stage passed through, leaves the collections as they were.
C20_ReadsChangeNothing ==
    /\ call.op \in ReadOps => both = pre
    /\ (call.op = "caller_mutate" /\ held.from \in ReadOps) => both = pre

\* the caller changed a nested list of a document that $unwind emitted for an
\* element of the stored document's participants
C20_Witness ==
    /\ call.op = "caller_mutate"
    /\ held.from = "aggregate"
    /\ call.path = <<"schedule_details", "days">>
    /\ held.refs[call.index].val.v["participants"] = PyStr("a")
    /\ held.refs[call.index].val.v["schedule_details"].v["days"] = strs(<<"x", "y", "x">>)
    /\ activities_collection.at[PyInt(2)] = DocB
    /\ both = pre

====
